---- MODULE Spec2Model ----
(***************************************************************************)
(* Model of packages/std/src/imports.rs: the guest-side wrappers around    *)
(* the host imports (ExternalStorage, ExternalIterator, ExternalApi,       *)
(* ExternalQuerier) and handle_panic.                                      *)
(*                                                                         *)
(* The guest is single-threaded and every wrapper is synchronous, so one   *)
(* wrapper call is one action.  The host is the environment: whatever it   *)
(* returns from an import is chosen nondeterministically.  Each action     *)
(* records the run of the wrapper in `last`: the host calls it made, the   *)
(* Regions it created or received and how often each was released, the     *)
(* handles it passed to consume_region, and its outcome.                   *)
(*                                                                         *)
(* Numbers: TLC integers are 32 bit, so a u64 import result is kept as the *)
(* pair <<high word, low word>> and u32 values are sampled below 2^31.     *)
(***************************************************************************)
EXTENDS Integers, Sequences, FiniteSets, TLC

\* The fields of the records used below, each with its empty value.  They
\* are named here first and in alphabetical order, and every record below
\* lists its fields in that order, so that TLC's workers never have to
\* reorder the fields of a record they share.
Fields ==
    [addr |-> 0, args |-> <<>>, calls |-> <<>>, capacity |-> 0, code |-> 0,
     consumed |-> <<>>, data |-> <<>>, flag |-> FALSE, fn |-> "", handle |-> 0,
     id |-> 0, input |-> <<>>, iterator_id |-> 0, kind |-> "", msg |-> "",
     num |-> 0, op |-> "", outcome |-> <<>>, regions |-> <<>>, released |-> 0,
     rest |-> <<>>, result |-> <<>>, ret |-> <<>>, tag |-> "", tail |-> <<>>,
     trap |-> FALSE, variant |-> "", written |-> <<>>]

\* ---------------------------------------------------------------- bounds
MaxDataLen == 2   \* longest byte buffer exchanged with the host
MaxHandle  == 1   \* number of distinct non-null handles the host may return
MaxCode    == 11  \* host codes 0..MaxCode are enumerated (plus three large ones)
LenMargin  == 2   \* address lengths 256-LenMargin .. 256+LenMargin are enumerated
MaxIterId  == 2   \* db_scan returns an id in 0..MaxIterId
MaxNext    == 3   \* next requests made on one iterator
MaxGas     == 2   \* check_gas returns a value in 0..MaxGas

\* ------------------------------------------------------ program constants
CANONICAL_ADDRESS_BUFFER_LENGTH == 64
HUMAN_ADDRESS_BUFFER_LENGTH == 90
MAX_LENGTH_HUMAN_ADDRESS == 256

\* ------------------------------------------------------------ input sets
ByteVals == {0, 255}

Datas == UNION {[1..n -> ByteVals] : n \in 0..MaxDataLen}

ShortDatas == {d \in Datas : Len(d) <= 1}

\* A string of n bytes (the wrappers only look at the length of an address).
Rep(n) == [i \in 1..n |-> 97]

AddrLens == {0, 1} \cup
            ((MAX_LENGTH_HUMAN_ADDRESS - LenMargin)..(MAX_LENGTH_HUMAN_ADDRESS + LenMargin))

AddrInputs == {Rep(n) : n \in AddrLens}

\* u32 codes a host function may return.
Codes == (0..MaxCode) \cup {1000, 1001, 2147483647}

\* Addresses of the Regions a wrapper stages itself: the i-th Region it
\* creates lives at address i.  No wrapper stages more than three.
MaxLocalRegions == 3

\* Handles the host may return: 0 (null) or the address of a Region the host
\* obtained from the guest's allocator, hence distinct from the staged ones.
HostHandles == {0} \cup {MaxLocalRegions + j : j \in 1..MaxHandle}

\* What the host hands back through a result handle: the handle and, when it
\* is not null, the bytes of the Region it points to.
NullHandle == [data |-> <<>>, handle |-> 0]

HostRegions == {NullHandle} \cup [data : ShortDatas, handle : HostHandles \ {0}]

\* ------------------------------------------------------------- outcomes
Ret(t, v, m, c, d, f) ==
    [code |-> c, data |-> d, flag |-> f, msg |-> m, tag |-> t, variant |-> v]

Unit == Ret("Unit", "", "", 0, <<>>, FALSE)
None == Ret("None", "", "", 0, <<>>, FALSE)
Some(bufs) == Ret("Some", "", "", 0, bufs, FALSE)
OkUnit == Ret("Ok", "", "", 0, <<>>, FALSE)
OkBool(b) == Ret("Ok", "", "", 0, <<>>, b)
OkBytes(d) == Ret("Ok", "", "", 0, <<d>>, FALSE)
OkNum(n) == Ret("Ok", "", "", n, <<>>, FALSE)
Err(variant) == Ret("Err", variant, "", 0, <<>>, FALSE)
\* StdError::generic_err(msg) / generic_err(format!("<msg>: {}", error))
generic_err(msg) == Ret("Err", "GenericErr", msg, 0, <<>>, FALSE)
generic_err_fmt(msg, error) == Ret("Err", "GenericErr", msg, 0, <<error>>, FALSE)
generic_err_code(msg, error_code) == Ret("Err", "GenericErr", msg, error_code, <<>>, FALSE)
\* XError::unknown_err(error_code)
unknown_err(error_code) == Ret("Err", "UnknownErr", "", error_code, <<>>, FALSE)
\* panic!(msg): the guest stops
Panic(msg) == Ret("Panic", "", msg, 0, <<>>, FALSE)
\* the guest stops inside consume_region (undefined behaviour on a null
\* handle): by a fault, or by a failed assertion, which is a panic
Trap == Ret("Trap", "", "consume_region", 0, <<>>, FALSE)

\* the host stopped the guest inside its abort import, having read the message
Aborted(message) == Ret("Aborted", "", "", 0, <<message>>, FALSE)

Terminated(o) == o.tag \in {"Panic", "Trap", "Aborted"}

\* ------------------------------------------------- regions and host calls
HostCall(fn, args, ret) == [args |-> args, fn |-> fn, ret |-> ret]

Region(kind, addr, capacity) ==
    [addr |-> addr, capacity |-> capacity, kind |-> kind, released |-> 0]

\* build_region(bytes): a Box<Region> over the caller's bytes, placed at addr.
build_region(bytes, addr) == Region("build", addr, Len(bytes))

\* alloc(capacity): a raw *mut Region placed at addr; no owner releases it
\* unless it is passed to consume_region.
alloc(capacity, addr) == Region("alloc", addr, capacity)

\* A Region the host wrote and handed over through a non-null result handle.
HostWritten(hr) ==
    IF hr.handle = 0 THEN <<>> ELSE <<Region("host", hr.handle, Len(hr.data))>>

\* Releasing the Region at addr once more.
Release(regions, addr) ==
    [i \in DOMAIN regions |->
        IF regions[i].addr = addr
        THEN [regions[i] EXCEPT !.released = @ + 1]
        ELSE regions[i]]

\* The Boxes of build_region go out of scope when the wrapper returns.
DropBoxes(regions) ==
    [i \in DOMAIN regions |->
        IF regions[i].kind = "build"
        THEN [regions[i] EXCEPT !.released = @ + 1]
        ELSE regions[i]]

\* consume_region(ptr) on a handle that is null: undefined behaviour.  The
\* builds differ: the guest may stop, or go on with whatever bytes it found.
UBOutcomes == {[data |-> <<>>, trap |-> TRUE]} \cup [data : ShortDatas, trap : {FALSE}]

\* Passed where the handle is known not to be null.
NoUB == [data |-> <<>>, trap |-> TRUE]

\* consume_region(ptr): the bytes of the Region at ptr, which is released.
consume_region(ptr, data, ub) ==
    IF ptr = 0 THEN ub ELSE [data |-> data, trap |-> FALSE]

\* from_high_half / from_low_half of a u64 kept as <<high, low>>.
from_high_half(result) == result[1]
from_low_half(result) == result[2]

\* The run of a wrapper that returned: its Boxes are dropped.
Return(calls, regions, consumed, outcome) ==
    [calls |-> calls, consumed |-> consumed, outcome |-> outcome,
     regions |-> DropBoxes(regions)]

\* The run of a wrapper that stopped the guest: nothing is released after it.
Abort(calls, regions, consumed, outcome) ==
    [calls |-> calls, consumed |-> consumed, outcome |-> outcome,
     regions |-> regions]

\* ------------------------------------------------------- sections codec
\* A length as four big-endian bytes.
BE32(n) == <<(n \div 16777216) % 256, (n \div 65536) % 256, (n \div 256) % 256, n % 256>>

FromBE32(b) == ((b[1] * 256 + b[2]) * 256 + b[3]) * 256 + b[4]

\* encode_sections(sections): every section followed by its length.
RECURSIVE encode_sections(_)
encode_sections(sections) ==
    IF sections = <<>> THEN <<>>
    ELSE Head(sections) \o BE32(Len(Head(sections))) \o encode_sections(Tail(sections))

\* The last section of data and what precedes it.
split_tail(data) ==
    LET n == Len(data)
        tail_len == FromBE32(SubSeq(data, n - 3, n))
    IN [rest |-> SubSeq(data, 1, n - 4 - tail_len),
        tail |-> SubSeq(data, n - 4 - tail_len + 1, n - 4)]

\* decode_sections2(data): the two sections of data, in their order.
decode_sections2(data) ==
    LET second == split_tail(data)
        first == split_tail(second.rest)
    IN <<first.tail, second.tail>>

\* ------------------------------------------------------- ExternalStorage
get(key, hr) ==
    LET key_r == build_region(key, 1)
        read == hr.handle
        calls == <<HostCall("db_read", <<key_r.addr>>, <<read>>)>>
    IN IF read = 0
       THEN Return(calls, <<key_r>>, <<>>, None)
       ELSE LET data == consume_region(read, hr.data, NoUB)
            IN Return(calls, Release(<<key_r>> \o HostWritten(hr), read), <<read>>,
                      Some(<<data.data>>))

set(key, value) ==
    IF Len(value) = 0
    THEN Abort(<<>>, <<>>, <<>>, Panic("Value must not be empty in Storage::set"))
    ELSE LET key_r == build_region(key, 1)
             value_r == build_region(value, 2)
         IN Return(<<HostCall("db_write", <<key_r.addr, value_r.addr>>, <<>>)>>,
                   <<key_r, value_r>>, <<>>, Unit)

remove(key) ==
    LET key_r == build_region(key, 1)
    IN Return(<<HostCall("db_remove", <<key_r.addr>>, <<>>)>>, <<key_r>>, <<>>, Unit)

\* Option<&[u8]> is <<>> (None) or <<bytes>> (Some(bytes)).
OptionDatas == {<<>>} \cup {<<d>> : d \in ShortDatas}

\* get_optional_region_address: 0 for None, the Region's address for Some.
get_optional_region_address(region) == IF region = <<>> THEN 0 ELSE region[1].addr

\* Order::Ascending = 1, Order::Descending = 2
Orders == {1, 2}

\* The Box<dyn Iterator> handed to the caller.
Iterator(iterator_id) == Ret("Iterator", "", "", iterator_id, <<>>, FALSE)

\* range, had it treated an iteration id of 0 as fatal.
range_panics_on_zero_id(start, end, order, iterator_id) ==
    LET start_region == IF start = <<>> THEN <<>> ELSE <<build_region(start[1], 1)>>
        end_region == IF end = <<>> THEN <<>>
                      ELSE <<build_region(end[1], Len(start_region) + 1)>>
        start_region_addr == get_optional_region_address(start_region)
        end_region_addr == get_optional_region_address(end_region)
        calls == <<HostCall("db_scan", <<start_region_addr, end_region_addr, order>>,
                            <<iterator_id>>)>>
    IN IF iterator_id = 0
       THEN Abort(calls, start_region \o end_region, <<>>, Panic("iterator id 0"))
       ELSE Return(calls, start_region \o end_region, <<>>, Iterator(iterator_id))

range(start, end, order, iterator_id) ==
    LET start_region == IF start = <<>> THEN <<>> ELSE <<build_region(start[1], 1)>>
        end_region == IF end = <<>> THEN <<>>
                      ELSE <<build_region(end[1], Len(start_region) + 1)>>
        start_region_addr == get_optional_region_address(start_region)
        end_region_addr == get_optional_region_address(end_region)
    IN Return(<<HostCall("db_scan", <<start_region_addr, end_region_addr, order>>,
                         <<iterator_id>>)>>,
              start_region \o end_region, <<>>, Iterator(iterator_id))

\* ------------------------------------------------------ ExternalIterator
\* next, had it tested the value instead of the key for the end of sequence.
next_ends_on_empty_value(iterator_id, hr, ub) ==
    LET next_result == hr.handle
        calls == <<HostCall("db_next", <<iterator_id>>, <<next_result>>)>>
        kv == consume_region(next_result, hr.data, ub)
    IN IF kv.trap
       THEN Abort(calls, <<>>, <<next_result>>, Trap)
       ELSE LET pair == decode_sections2(kv.data)
                key == pair[1]
                value == pair[2]
            IN Return(calls, Release(HostWritten(hr), next_result), <<next_result>>,
                      IF Len(value) = 0 THEN None ELSE Some(<<key, value>>))

\* next, had it yielded the pair as (value, key).
next_swaps_pair(iterator_id, hr, ub) ==
    LET next_result == hr.handle
        calls == <<HostCall("db_next", <<iterator_id>>, <<next_result>>)>>
        kv == consume_region(next_result, hr.data, ub)
    IN IF kv.trap
       THEN Abort(calls, <<>>, <<next_result>>, Trap)
       ELSE LET pair == decode_sections2(kv.data)
                key == pair[1]
                value == pair[2]
            IN Return(calls, Release(HostWritten(hr), next_result), <<next_result>>,
                      IF Len(key) = 0 THEN None ELSE Some(<<value, key>>))

next(iterator_id, hr, ub) ==
    LET next_result == hr.handle
        calls == <<HostCall("db_next", <<iterator_id>>, <<next_result>>)>>
        kv == consume_region(next_result, hr.data, ub)
    IN IF kv.trap
       THEN Abort(calls, <<>>, <<next_result>>, Trap)
       ELSE LET pair == decode_sections2(kv.data)
                key == pair[1]
                value == pair[2]
            IN Return(calls, Release(HostWritten(hr), next_result), <<next_result>>,
                      IF Len(key) = 0 THEN None ELSE Some(<<key, value>>))

\* ----------------------------------------------------------- ExternalApi
\* consume_string_region_written_by_vm(from): consume_region, read as a String.
consume_string_region_written_by_vm(from, data, ub) == consume_region(from, data, ub)

\* What the host returns from an import that signals an error by a handle to
\* an error string: 0, or the handle and the string.
HostErrors == HostRegions

\* What the host returns from addr_canonicalize / addr_humanize: 0 and the
\* bytes it wrote into the destination Region, or an error as above.
HostWrites == {[data |-> <<>>, handle |-> 0, written |-> d] : d \in Datas} \cup
              {[data |-> h.data, handle |-> h.handle, written |-> <<>>] :
                  h \in HostErrors \ {NullHandle}}

\* addr_validate, had it rejected an input of exactly 256 bytes too.
addr_validate_off_by_one(input, hr) ==
    IF Len(input) >= MAX_LENGTH_HUMAN_ADDRESS
    THEN Return(<<>>, <<>>, <<>>, generic_err("input too long for addr_validate"))
    ELSE LET source == build_region(input, 1)
             result == hr.handle
             calls == <<HostCall("addr_validate", <<source.addr>>, <<result>>)>>
         IN IF result # 0
            THEN LET error == consume_string_region_written_by_vm(result, hr.data, NoUB)
                 IN Return(calls, Release(<<source>> \o HostWritten(hr), result),
                           <<result>>,
                           generic_err_fmt("addr_validate errored", error.data))
            ELSE Return(calls, <<source>>, <<>>, Ret("Ok", "Addr", "", 0, <<input>>, FALSE))

addr_validate(input, hr) ==
    IF Len(input) > MAX_LENGTH_HUMAN_ADDRESS
    THEN Return(<<>>, <<>>, <<>>, generic_err("input too long for addr_validate"))
    ELSE LET source == build_region(input, 1)
             result == hr.handle
             calls == <<HostCall("addr_validate", <<source.addr>>, <<result>>)>>
         IN IF result # 0
            THEN LET error == consume_string_region_written_by_vm(result, hr.data, NoUB)
                 IN Return(calls, Release(<<source>> \o HostWritten(hr), result),
                           <<result>>,
                           generic_err_fmt("addr_validate errored", error.data))
            ELSE Return(calls, <<source>>, <<>>, Ret("Ok", "Addr", "", 0, <<input>>, FALSE))

\* addr_canonicalize, had it panicked on a too long input as set does on an
\* empty value.
addr_canonicalize_panics_too_long(input, hw) ==
    IF Len(input) > MAX_LENGTH_HUMAN_ADDRESS
    THEN Abort(<<>>, <<>>, <<>>, Panic("input too long for addr_canonicalize"))
    ELSE LET send == build_region(input, 1)
             canon == alloc(CANONICAL_ADDRESS_BUFFER_LENGTH, 2)
             result == hw.handle
             calls == <<HostCall("addr_canonicalize", <<send.addr, canon.addr>>,
                                 <<result>>)>>
         IN IF result # 0
            THEN LET error == consume_string_region_written_by_vm(result, hw.data, NoUB)
                 IN Return(calls, Release(<<send, canon>> \o HostWritten(hw), result),
                           <<result>>,
                           generic_err_fmt("addr_canonicalize errored", error.data))
            ELSE LET out == consume_region(canon.addr, hw.written, NoUB)
                 IN Return(calls, Release(<<send, canon>>, canon.addr), <<canon.addr>>,
                           Ret("Ok", "CanonicalAddr", "", 0, <<out.data>>, FALSE))

addr_canonicalize(input, hw) ==
    IF Len(input) > MAX_LENGTH_HUMAN_ADDRESS
    THEN Return(<<>>, <<>>, <<>>, generic_err("input too long for addr_canonicalize"))
    ELSE LET send == build_region(input, 1)
             canon == alloc(CANONICAL_ADDRESS_BUFFER_LENGTH, 2)
             result == hw.handle
             calls == <<HostCall("addr_canonicalize", <<send.addr, canon.addr>>,
                                 <<result>>)>>
         IN IF result # 0
            THEN LET error == consume_string_region_written_by_vm(result, hw.data, NoUB)
                 IN Return(calls, Release(<<send, canon>> \o HostWritten(hw), result),
                           <<result>>,
                           generic_err_fmt("addr_canonicalize errored", error.data))
            ELSE LET out == consume_region(canon.addr, hw.written, NoUB)
                 IN Return(calls, Release(<<send, canon>>, canon.addr), <<canon.addr>>,
                           Ret("Ok", "CanonicalAddr", "", 0, <<out.data>>, FALSE))

addr_humanize(canonical, hw) ==
    LET send == build_region(canonical, 1)
        human == alloc(HUMAN_ADDRESS_BUFFER_LENGTH, 2)
        result == hw.handle
        calls == <<HostCall("addr_humanize", <<send.addr, human.addr>>, <<result>>)>>
    IN IF result # 0
       THEN LET error == consume_string_region_written_by_vm(result, hw.data, NoUB)
            IN Return(calls, Release(<<send, human>> \o HostWritten(hw), result),
                      <<result>>, generic_err_fmt("addr_humanize errored", error.data))
       ELSE LET address == consume_string_region_written_by_vm(human.addr, hw.written, NoUB)
            IN Return(calls, Release(<<send, human>>, human.addr), <<human.addr>>,
                      Ret("Ok", "Addr", "", 0, <<address.data>>, FALSE))

\* The three Regions a verification wrapper stages.
Staged3(a, b, c) == <<build_region(a, 1), build_region(b, 2), build_region(c, 3)>>

\* The two Regions a recovery or signing wrapper stages.
Staged2(a, b) == <<build_region(a, 1), build_region(b, 2)>>

\* The run of a wrapper that ends with `outcome`.
Finish(calls, regions, consumed, outcome) ==
    IF Terminated(outcome)
    THEN Abort(calls, regions, consumed, outcome)
    ELSE Return(calls, regions, consumed, outcome)

\* The match of secp256k1_verify with the arms of 3 and 4 exchanged.
secp256k1_verify_match_swapped(result) ==
    CASE result = 0 -> OkBool(TRUE)
      [] result = 1 -> OkBool(FALSE)
      [] result = 2 -> Panic("MessageTooLong must not happen. This is a bug in the VM.")
      [] result = 3 -> Err("InvalidSignatureFormat")
      [] result = 4 -> Err("InvalidHashFormat")
      [] result = 5 -> Err("InvalidPubkeyFormat")
      [] result = 10 -> Err("GenericErr")
      [] OTHER -> unknown_err(result)

\* match result { ... } of secp256k1_verify
secp256k1_verify_match(result) ==
    CASE result = 0 -> OkBool(TRUE)
      [] result = 1 -> OkBool(FALSE)
      [] result = 2 -> Panic("MessageTooLong must not happen. This is a bug in the VM.")
      [] result = 3 -> Err("InvalidHashFormat")
      [] result = 4 -> Err("InvalidSignatureFormat")
      [] result = 5 -> Err("InvalidPubkeyFormat")
      [] result = 10 -> Err("GenericErr")
      [] OTHER -> unknown_err(result)

secp256k1_verify(message_hash, signature, public_key, result) ==
    LET regions == Staged3(message_hash, signature, public_key)
    IN Finish(<<HostCall("secp256k1_verify", <<1, 2, 3>>, <<result>>)>>, regions, <<>>,
              secp256k1_verify_match(result))

\* match result { ... } of ed25519_verify
ed25519_verify_match(result) ==
    CASE result = 0 -> OkBool(TRUE)
      [] result = 1 -> OkBool(FALSE)
      [] result = 2 -> Panic("Error code 2 unused since CosmWasm 0.15. This is a bug in the VM.")
      [] result = 3 -> Panic("InvalidHashFormat must not happen. This is a bug in the VM.")
      [] result = 4 -> Err("InvalidSignatureFormat")
      [] result = 5 -> Err("InvalidPubkeyFormat")
      [] result = 10 -> Err("GenericErr")
      [] OTHER -> unknown_err(result)

ed25519_verify(message, signature, public_key, result) ==
    LET regions == Staged3(message, signature, public_key)
    IN Finish(<<HostCall("ed25519_verify", <<1, 2, 3>>, <<result>>)>>, regions, <<>>,
              ed25519_verify_match(result))

\* match result { ... } of ed25519_batch_verify
ed25519_batch_verify_match(result) ==
    CASE result = 0 -> OkBool(TRUE)
      [] result = 1 -> OkBool(FALSE)
      [] result = 2 -> Panic("Error code 2 unused since CosmWasm 0.15. This is a bug in the VM.")
      [] result = 3 -> Panic("InvalidHashFormat must not happen. This is a bug in the VM.")
      [] result = 4 -> Err("InvalidSignatureFormat")
      [] result = 5 -> Err("InvalidPubkeyFormat")
      [] result = 10 -> Err("GenericErr")
      [] OTHER -> unknown_err(result)

ed25519_batch_verify(messages, signatures, public_keys, result) ==
    LET msgs_encoded == encode_sections(messages)
        sigs_encoded == encode_sections(signatures)
        pubkeys_encoded == encode_sections(public_keys)
        regions == Staged3(msgs_encoded, sigs_encoded, pubkeys_encoded)
    IN Finish(<<HostCall("ed25519_batch_verify", <<1, 2, 3>>, <<result>>)>>, regions, <<>>,
              ed25519_batch_verify_match(result))

\* What the host returns from a dual-return import: the u64 as <<code, handle>>
\* and, when it reports success through a non-null handle, the bytes of the
\* Region the handle points to.  With a nonzero code the low half is no Region.
HostDuals == {[data |-> <<>>, result |-> <<c, h>>] :
                 c \in Codes, h \in HostHandles} \cup
             {[data |-> d, result |-> <<0, h>>] :
                 h \in HostHandles \ {0}, d \in ShortDatas}

\* The Region the host handed over in a dual return.
DualWritten(hd) ==
    IF from_high_half(hd.result) = 0
    THEN HostWritten([data |-> hd.data, handle |-> from_low_half(hd.result)])
    ELSE <<>>

\* secp256k1_recover_pubkey with the error arms of the verification table.
secp256k1_recover_pubkey_verify_table(message_hash, signature, recover_param, hd, ub) ==
    LET regions == Staged2(message_hash, signature)
        result == hd.result
        calls == <<HostCall("secp256k1_recover_pubkey", <<1, 2, recover_param>>, result)>>
        error_code == from_high_half(result)
        pubkey_ptr == from_low_half(result)
    IN CASE error_code = 0 ->
              LET pubkey == consume_region(pubkey_ptr, hd.data, ub)
              IN Finish(calls, Release(regions \o DualWritten(hd), pubkey_ptr),
                        <<pubkey_ptr>>,
                        IF pubkey.trap THEN Trap ELSE OkBytes(pubkey.data))
         [] error_code = 2 ->
              Finish(calls, regions, <<>>,
                     Panic("MessageTooLong must not happen. This is a bug in the VM."))
         [] error_code = 3 -> Finish(calls, regions, <<>>, Err("InvalidHashFormat"))
         [] error_code = 4 -> Finish(calls, regions, <<>>, Err("InvalidSignatureFormat"))
         [] error_code = 5 -> Finish(calls, regions, <<>>, Err("InvalidPubkeyFormat"))
         [] error_code = 6 -> Finish(calls, regions, <<>>, Err("InvalidRecoveryParam"))
         [] error_code = 10 -> Finish(calls, regions, <<>>, Err("GenericErr"))
         [] OTHER -> Finish(calls, regions, <<>>, unknown_err(error_code))

secp256k1_recover_pubkey(message_hash, signature, recover_param, hd, ub) ==
    LET regions == Staged2(message_hash, signature)
        result == hd.result
        calls == <<HostCall("secp256k1_recover_pubkey", <<1, 2, recover_param>>, result)>>
        error_code == from_high_half(result)
        pubkey_ptr == from_low_half(result)
    IN CASE error_code = 0 ->
              LET pubkey == consume_region(pubkey_ptr, hd.data, ub)
              IN Finish(calls, Release(regions \o DualWritten(hd), pubkey_ptr),
                        <<pubkey_ptr>>,
                        IF pubkey.trap THEN Trap ELSE OkBytes(pubkey.data))
         [] error_code = 2 ->
              Finish(calls, regions, <<>>,
                     Panic("MessageTooLong must not happen. This is a bug in the VM."))
         [] error_code = 3 -> Finish(calls, regions, <<>>, Err("InvalidHashFormat"))
         [] error_code = 4 -> Finish(calls, regions, <<>>, Err("InvalidSignatureFormat"))
         [] error_code = 6 -> Finish(calls, regions, <<>>, Err("InvalidRecoveryParam"))
         [] OTHER -> Finish(calls, regions, <<>>, unknown_err(error_code))

\* secp256k1_sign, had it consumed the handle before looking at the code.
secp256k1_sign_consumes_first(message, private_key, hd, ub) ==
    LET regions == Staged2(message, private_key)
        result == hd.result
        calls == <<HostCall("secp256k1_sign", <<1, 2>>, result)>>
        error_code == from_high_half(result)
        signature_ptr == from_low_half(result)
        signature == consume_region(signature_ptr, hd.data, ub)
        held == Release(regions \o DualWritten(hd), signature_ptr)
    IN IF signature.trap
       THEN Finish(calls, held, <<signature_ptr>>, Trap)
       ELSE CASE error_code = 0 ->
                   Finish(calls, held, <<signature_ptr>>, OkBytes(signature.data))
              [] error_code = 1000 ->
                   Finish(calls, held, <<signature_ptr>>, Err("InvalidPrivateKeyFormat"))
              [] OTHER -> Finish(calls, held, <<signature_ptr>>, unknown_err(error_code))

secp256k1_sign(message, private_key, hd, ub) ==
    LET regions == Staged2(message, private_key)
        result == hd.result
        calls == <<HostCall("secp256k1_sign", <<1, 2>>, result)>>
        error_code == from_high_half(result)
        signature_ptr == from_low_half(result)
    IN CASE error_code = 0 ->
              LET signature == consume_region(signature_ptr, hd.data, ub)
              IN Finish(calls, Release(regions \o DualWritten(hd), signature_ptr),
                        <<signature_ptr>>,
                        IF signature.trap THEN Trap ELSE OkBytes(signature.data))
         [] error_code = 1000 -> Finish(calls, regions, <<>>, Err("InvalidPrivateKeyFormat"))
         [] OTHER -> Finish(calls, regions, <<>>, unknown_err(error_code))

ed25519_sign(message, private_key, hd, ub) ==
    LET regions == Staged2(message, private_key)
        result == hd.result
        calls == <<HostCall("ed25519_sign", <<1, 2>>, result)>>
        error_code == from_high_half(result)
        signature_ptr == from_low_half(result)
    IN CASE error_code = 0 ->
              LET signature == consume_region(signature_ptr, hd.data, ub)
              IN Finish(calls, Release(regions \o DualWritten(hd), signature_ptr),
                        <<signature_ptr>>,
                        IF signature.trap THEN Trap ELSE OkBytes(signature.data))
         [] error_code = 1000 -> Finish(calls, regions, <<>>, Err("InvalidPrivateKeyFormat"))
         [] OTHER -> Finish(calls, regions, <<>>, unknown_err(error_code))

debug(message) ==
    LET region == build_region(message, 1)
    IN Return(<<HostCall("debug", <<region.addr>>, <<>>)>>, <<region>>, <<>>, Unit)

check_gas(result) ==
    LET calls == <<HostCall("check_gas", <<>>, <<result>>)>>
    IN IF result = 0
       THEN Return(calls, <<>>, <<>>, generic_err("check_gas error"))
       ELSE Return(calls, <<>>, <<>>, OkNum(result))

gas_evaporate(evaporate, result) ==
    LET calls == <<HostCall("gas_evaporate", <<evaporate>>, <<result>>)>>
    IN IF result # 0
       THEN Return(calls, <<>>, <<>>, generic_err_code("gas_evaporate errored", result))
       ELSE Return(calls, <<>>, <<>>, OkUnit)

\* ------------------------------------------------------- ExternalQuerier
\* from_slice(&response).unwrap_or_else(InvalidResponse): the parse is a
\* function of the response bytes alone; the result keeps them.
from_slice_or_invalid(response) == Ret("QuerierResult", "", "", 0, <<response>>, FALSE)

raw_query(bin_request, hr, ub) ==
    LET req == build_region(bin_request, 1)
        response_ptr == hr.handle
        calls == <<HostCall("query_chain", <<req.addr>>, <<response_ptr>>)>>
        response == consume_region(response_ptr, hr.data, ub)
    IN Finish(calls, Release(<<req>> \o HostWritten(hr), response_ptr), <<response_ptr>>,
              IF response.trap THEN Trap ELSE from_slice_or_invalid(response.data))

\* ---------------------------------------------------------- handle_panic
\* handle_panic(message): stages a Region over the message and hands it to
\* the host's abort import.  The host stops the guest inside the call, and
\* then the Box is never dropped; were the import to return, the Box would
\* go out of scope as in every other wrapper.
handle_panic(message, addr, stopped) ==
    LET region == build_region(message, addr)
        calls == <<HostCall("abort", <<region.addr>>, <<>>)>>
    IN IF stopped
       THEN Abort(calls, <<region>>, <<>>, Aborted(message))
       ELSE Return(calls, <<region>>, <<>>, Unit)

\* ------------------------------------------------------------- the state
VARIABLES
    last,      \* the run of the most recent wrapper call
    alive,     \* FALSE once a wrapper has stopped the guest
    iter,      \* the ExternalIterator the caller holds: <<>> or <<[iterator_id]>>
    hostLog,   \* the db_next calls made for iter: [id, handle, data] each
    yielded    \* what iter's next requests returned, in order

vars == <<last, alive, iter, hostLog, yielded>>

Call(op, input, num, run) ==
    [calls |-> run.calls, consumed |-> run.consumed, input |-> input, num |-> num,
     op |-> op, outcome |-> run.outcome, regions |-> run.regions]

Init ==
    /\ last = Call("init", <<>>, 0, Return(<<>>, <<>>, <<>>, Unit))
    /\ alive = TRUE
    /\ iter = <<>>
    /\ hostLog = <<>>
    /\ yielded = <<>>

\* The state after a call of a stateless wrapper that ran as `run`.
Ran(op, input, num, run) ==
    /\ last' = Call(op, input, num, run)
    /\ alive' = ~Terminated(run.outcome)

\* The outcomes of consuming handle h.
UBFor(h, outcomes) == IF h = 0 THEN outcomes ELSE {NoUB}
UBForDual(hd) == IF hd.result[1] = 0 THEN UBFor(hd.result[2], UBOutcomes) ELSE {NoUB}

\* Inputs of the cryptographic wrappers.
TwoDatas == {<<>>, <<0>>}
BatchLists == {<<>>, << <<0>>, <<255>> >>}
RecoverParams == {0, 3}
Evaporates == 0..1

StorageGet ==
    /\ alive
    /\ \E key \in ShortDatas, hr \in HostRegions :
          Ran("get", <<key>>, 0, get(key, hr))
    /\ UNCHANGED <<iter, hostLog, yielded>>

StorageSet ==
    /\ alive
    /\ \E key \in ShortDatas, value \in Datas :
          Ran("set", <<key, value>>, 0, set(key, value))
    /\ UNCHANGED <<iter, hostLog, yielded>>

StorageRemove ==
    /\ alive
    /\ \E key \in ShortDatas :
          Ran("remove", <<key>>, 0, remove(key))
    /\ UNCHANGED <<iter, hostLog, yielded>>

ApiAddrValidate ==
    /\ alive
    /\ \E input \in AddrInputs, hr \in HostErrors :
          Ran("addr_validate", <<input>>, 0, addr_validate(input, hr))
    /\ UNCHANGED <<iter, hostLog, yielded>>

ApiAddrCanonicalize ==
    /\ alive
    /\ \E input \in AddrInputs, hw \in HostWrites :
          Ran("addr_canonicalize", <<input>>, 0, addr_canonicalize(input, hw))
    /\ UNCHANGED <<iter, hostLog, yielded>>

ApiAddrHumanize ==
    /\ alive
    /\ \E canonical \in ShortDatas, hw \in HostWrites :
          Ran("addr_humanize", <<canonical>>, 0, addr_humanize(canonical, hw))
    /\ UNCHANGED <<iter, hostLog, yielded>>

ApiSecp256k1Verify ==
    /\ alive
    /\ \E h \in ShortDatas, s \in ShortDatas, k \in ShortDatas, result \in Codes :
          Ran("secp256k1_verify", <<h, s, k>>, 0, secp256k1_verify(h, s, k, result))
    /\ UNCHANGED <<iter, hostLog, yielded>>

ApiSecp256k1RecoverPubkey ==
    /\ alive
    /\ \E h \in TwoDatas, s \in TwoDatas, p \in RecoverParams, hd \in HostDuals :
          \E ub \in UBForDual(hd) :
              Ran("secp256k1_recover_pubkey", <<h, s>>, p,
                  secp256k1_recover_pubkey(h, s, p, hd, ub))
    /\ UNCHANGED <<iter, hostLog, yielded>>

ApiEd25519Verify ==
    /\ alive
    /\ \E m \in TwoDatas, s \in TwoDatas, k \in TwoDatas, result \in Codes :
          Ran("ed25519_verify", <<m, s, k>>, 0, ed25519_verify(m, s, k, result))
    /\ UNCHANGED <<iter, hostLog, yielded>>

ApiEd25519BatchVerify ==
    /\ alive
    /\ \E ms \in BatchLists, ss \in BatchLists, ks \in BatchLists, result \in Codes :
          Ran("ed25519_batch_verify",
              <<encode_sections(ms), encode_sections(ss), encode_sections(ks)>>, 0,
              ed25519_batch_verify(ms, ss, ks, result))
    /\ UNCHANGED <<iter, hostLog, yielded>>

ApiDebug ==
    /\ alive
    /\ \E message \in Datas :
          Ran("debug", <<message>>, 0, debug(message))
    /\ UNCHANGED <<iter, hostLog, yielded>>

ApiSecp256k1Sign ==
    /\ alive
    /\ \E m \in TwoDatas, k \in TwoDatas, hd \in HostDuals :
          \E ub \in UBForDual(hd) :
              Ran("secp256k1_sign", <<m, k>>, 0, secp256k1_sign(m, k, hd, ub))
    /\ UNCHANGED <<iter, hostLog, yielded>>

ApiEd25519Sign ==
    /\ alive
    /\ \E m \in TwoDatas, k \in TwoDatas, hd \in HostDuals :
          \E ub \in UBForDual(hd) :
              Ran("ed25519_sign", <<m, k>>, 0, ed25519_sign(m, k, hd, ub))
    /\ UNCHANGED <<iter, hostLog, yielded>>

ApiCheckGas ==
    /\ alive
    /\ \E result \in 0..MaxGas :
          Ran("check_gas", <<>>, 0, check_gas(result))
    /\ UNCHANGED <<iter, hostLog, yielded>>

ApiGasEvaporate ==
    /\ alive
    /\ \E evaporate \in Evaporates, result \in Codes :
          Ran("gas_evaporate", <<>>, evaporate, gas_evaporate(evaporate, result))
    /\ UNCHANGED <<iter, hostLog, yielded>>

QuerierRawQuery ==
    /\ alive
    /\ \E bin_request \in ShortDatas, hr \in HostRegions :
          \E ub \in UBFor(hr.handle, UBOutcomes) :
              Ran("raw_query", <<bin_request>>, 0, raw_query(bin_request, hr, ub))
    /\ UNCHANGED <<iter, hostLog, yielded>>

\* The messages handle_panic is called with.
PanicMessages == ShortDatas

\* handle_panic is public: the contract may call it while it runs.
HandlePanic ==
    /\ alive
    /\ \E message \in PanicMessages, stopped \in BOOLEAN :
          LET run == handle_panic(message, 1, stopped)
          IN Ran("handle_panic", <<message>>, 0, run)
    /\ UNCHANGED <<iter, hostLog, yielded>>

\* A panic hook that reports panics to the host calls handle_panic with the
\* formatted panic message while the guest is stopping: after a panic! of a
\* wrapper, and after a stop inside consume_region when that stop is a failed
\* assertion.  The Regions of the stopped wrapper are still held then, so the
\* message's Region is placed after them.  The guest stays stopped whether
\* or not the abort import returns.
PanicHook ==
    /\ ~alive
    /\ last.outcome.tag \in {"Panic", "Trap"}
    /\ \E message \in PanicMessages, stopped \in BOOLEAN :
          LET run == handle_panic(message, Len(last.regions) + 1, stopped)
          IN last' = Call("handle_panic", <<message>>, 0, run)
    /\ UNCHANGED <<alive, iter, hostLog, yielded>>

Next ==
    \/ StorageGet
    \/ StorageSet
    \/ StorageRemove
    \/ ApiAddrValidate
    \/ ApiAddrCanonicalize
    \/ ApiAddrHumanize
    \/ ApiSecp256k1Verify
    \/ ApiSecp256k1RecoverPubkey
    \/ ApiEd25519Verify
    \/ ApiEd25519BatchVerify
    \/ ApiDebug
    \/ ApiSecp256k1Sign
    \/ ApiEd25519Sign
    \/ ApiCheckGas
    \/ ApiGasEvaporate
    \/ QuerierRawQuery
    \/ HandlePanic
    \/ PanicHook

Spec == Init /\ [][Next]_vars

\* ---------------------------------------------------------- iteration
\* The key/value pairs the host may return from db_next, sections-encoded.
IterValues == {<<>>, <<0>>}
KVDatas == {encode_sections(<<k, v>>) : k \in ShortDatas, v \in IterValues}

HostKVs == {NullHandle} \cup [data : KVDatas, handle : HostHandles \ {0}]

UBKVs == {[data |-> <<>>, trap |-> TRUE]} \cup [data : KVDatas, trap : {FALSE}]

\* The db_next calls of a run, as the host saw and answered them.
HostSaw(calls, data) ==
    [i \in DOMAIN calls |->
        [data |-> data, handle |-> calls[i].ret[1], id |-> calls[i].args[1]]]

StorageRange ==
    /\ alive
    /\ iter = <<>>
    /\ \E start \in OptionDatas, end \in OptionDatas, order \in Orders,
          iterator_id \in 0..MaxIterId :
          LET run == range(start, end, order, iterator_id)
          IN /\ Ran("range", start \o end, order, run)
             /\ iter' = IF run.outcome.tag = "Iterator"
                        THEN <<[iterator_id |-> run.outcome.code]>>
                        ELSE <<>>
    /\ UNCHANGED <<hostLog, yielded>>

IterNext ==
    /\ alive
    /\ iter # <<>>
    /\ Len(yielded) < MaxNext
    /\ \E hr \in HostKVs :
          \E ub \in UBFor(hr.handle, UBKVs) :
              LET run == next(iter[1].iterator_id, hr, ub)
              IN /\ Ran("next", <<>>, iter[1].iterator_id, run)
                 /\ hostLog' = hostLog \o HostSaw(run.calls, hr.data)
                 /\ yielded' = Append(yielded, run.outcome)
    /\ UNCHANGED iter

NextIter ==
    \/ StorageRange
    \/ IterNext
    \/ PanicHook

SpecIter == Init /\ [][NextIter]_vars

TypeOK ==
    /\ alive \in BOOLEAN
    /\ Len(iter) <= 1
    /\ Len(yielded) <= MaxNext

\* ================================================================ claims
\* The raw host result of the (single) import call of the last run.
HostResult == last.calls[1].ret

DualOps == {"secp256k1_recover_pubkey", "secp256k1_sign", "ed25519_sign"}
VerifyOps == {"secp256k1_verify", "ed25519_verify", "ed25519_batch_verify"}
AddrOps == {"addr_validate", "addr_canonicalize"}

\* C1: every Region a wrapper creates (build_region, alloc) or receives from
\* the host through a result handle has been released exactly once when the
\* wrapper returns, on every exit path.
C1_ReleasedExactlyOnce ==
    (alive /\ last.op # "init") =>
        \A i \in DOMAIN last.regions : last.regions[i].released = 1

\* C2: in secp256k1_recover_pubkey, secp256k1_sign and ed25519_sign the low
\* half of the host's u64 is passed to consume_region if and only if the high
\* half is 0; with a nonzero code nothing is consumed, whatever the handle.
C2_HandleConsumedIffSuccess ==
    last.op \in DualOps =>
        /\ HostResult[1] = 0 => last.consumed = <<HostResult[2]>>
        /\ HostResult[1] # 0 => last.consumed = <<>>

C2_Witness ==
    /\ last.op = "secp256k1_sign"
    /\ HostResult[1] = 1000
    /\ HostResult[2] # 0
    /\ last.consumed = <<>>

\* C3: a locally rejected input causes no host call (set with an empty value,
\* addr_validate / addr_canonicalize with more than 256 bytes); set with a
\* non-empty value calls db_write exactly once, and an address of at most 256
\* bytes calls the wrapper's host function exactly once.
C3_RejectedInputsMakeNoHostCall ==
    /\ last.op = "set" =>
          IF Len(last.input[2]) = 0
          THEN last.calls = <<>>
          ELSE Len(last.calls) = 1 /\ last.calls[1].fn = "db_write"
    /\ last.op \in AddrOps =>
          IF Len(last.input[1]) > 256
          THEN last.calls = <<>>
          ELSE Len(last.calls) = 1 /\ last.calls[1].fn = last.op

C3_Witness ==
    /\ last.op = "addr_validate"
    /\ Len(last.input[1]) = 256
    /\ Len(last.calls) = 1

\* A call the wrapper rejects locally.
LocallyRejectedAddr == last.op \in AddrOps /\ Len(last.input[1]) > 256
LocallyRejectedSet == last.op = "set" /\ Len(last.input[2]) = 0

\* C4 (as stated): every local rejection, of an address longer than 256 bytes
\* and of an empty value in set, returns an ordinary typed error and the guest
\* keeps running.
C4_Original ==
    (LocallyRejectedAddr \/ LocallyRejectedSet) =>
        (last.outcome.tag = "Err" /\ alive)

\* C4 (amended): the local rejection of an address longer than 256 bytes in
\* addr_validate / addr_canonicalize returns an ordinary typed error
\* (StdError::GenericErr) and the guest keeps running; the local rejection of
\* an empty value in set does not return: set panics and the guest stops.
C4_Amended ==
    /\ LocallyRejectedAddr =>
          /\ last.outcome.tag = "Err"
          /\ last.outcome.variant = "GenericErr"
          /\ alive
    /\ LocallyRejectedSet =>
          /\ last.outcome.tag = "Panic"
          /\ ~alive

C4_Witness ==
    /\ last.op = "addr_canonicalize"
    /\ Len(last.input[1]) = 257
    /\ last.outcome.tag = "Err"
    /\ alive

\* The pair the host encoded in the data of its i-th db_next answer.
HostPair(i) ==
    CHOOSE kv \in ShortDatas \X IterValues :
        encode_sections(<<kv[1], kv[2]>>) = hostLog[i].data

\* The host answered calls 1..n with Regions, the first n-1 holding a pair
\* with a non-empty key and the n-th a pair with an empty key.
HostEndsAt(n) ==
    /\ n \in DOMAIN hostLog
    /\ \A i \in 1..n : hostLog[i].handle # 0
    /\ \A i \in 1..(n - 1) : HostPair(i)[1] # <<>>
    /\ HostPair(n)[1] = <<>>

\* C5: when the host returns pairs with a non-empty key on calls 1..N-1 and a
\* pair with an empty key on call N, the iterator yields exactly those N-1
\* pairs, in order and unchanged, then end of sequence; every next request
\* makes one db_next call with the iterator's id and consumes the returned
\* Region exactly once.
C5_YieldsHostPairsThenEnds ==
    /\ Len(hostLog) = Len(yielded)
    /\ \A i \in DOMAIN hostLog : hostLog[i].id = iter[1].iterator_id
    /\ \A n \in DOMAIN hostLog :
          (HostEndsAt(n) /\ n \in DOMAIN yielded) =>
              /\ \A i \in 1..(n - 1) :
                    yielded[i] = Some(<<HostPair(i)[1], HostPair(i)[2]>>)
              /\ yielded[n] = None
    /\ (last.op = "next" /\ HostResult[1] # 0) =>
          /\ Len(last.calls) = 1
          /\ last.consumed = <<HostResult[1]>>
          /\ Len(last.regions) = 1
          /\ last.regions[1].addr = HostResult[1]
          /\ last.regions[1].released = 1

C5_Witness ==
    /\ Len(yielded) = 3
    /\ HostEndsAt(3)
    /\ yielded[1].tag = "Some"
    /\ yielded[2].tag = "Some"
    /\ yielded[1] # yielded[2]
    /\ yielded[3].tag = "None"

\* C6 (as stated): once a next request has returned end of sequence, every
\* later next request that returns also returns end of sequence, whatever the
\* host answers.
C6_Original ==
    \A i, j \in DOMAIN yielded :
        (i < j /\ yielded[i].tag = "None" /\ yielded[j].tag # "Trap") =>
            yielded[j].tag = "None"

\* C6 (amended): the iterator keeps no Exhausted state.  After a next request
\* has returned end of sequence, a later request still makes its db_next call
\* and returns end of sequence if and only if the host again answers with an
\* empty key; when the host answers with a non-empty key, that pair is
\* yielded.
C6_Amended ==
    \A i, j \in DOMAIN yielded :
        (i < j /\ yielded[i].tag = "None") =>
            /\ j \in DOMAIN hostLog
            /\ hostLog[j].handle # 0 =>
                  IF HostPair(j)[1] = <<>>
                  THEN yielded[j] = None
                  ELSE yielded[j] = Some(<<HostPair(j)[1], HostPair(j)[2]>>)

C6_Witness ==
    /\ Len(yielded) >= 2
    /\ yielded[1].tag = "None"
    /\ yielded[2].tag = "Some"
    /\ hostLog[2].handle # 0

\* C7 (as stated): an iteration id of 0 returned by db_scan stops the guest in
\* range, and db_next is never called with id 0.
C7_Original ==
    /\ (last.op = "range" /\ HostResult = <<0>>) => ~alive
    /\ \A i \in DOMAIN hostLog : hostLog[i].id # 0

\* C7 (amended): range does not check the id db_scan returns.  For every id,
\* 0 included, range returns, without stopping the guest, an iterator holding
\* that id, and every later next request calls db_next with it.
C7_Amended ==
    /\ last.op = "range" =>
          /\ alive
          /\ last.outcome.tag = "Iterator"
          /\ iter = <<[iterator_id |-> HostResult[1]]>>
    /\ (last.op = "next" /\ last.calls # <<>>) =>
          /\ last.calls[1].fn = "db_next"
          /\ last.calls[1].args = <<iter[1].iterator_id>>

C7_Witness ==
    /\ iter = <<[iterator_id |-> 0]>>
    /\ last.op = "next"
    /\ last.calls[1].args = <<0>>
    /\ alive

\* The codes documented as "must not happen" in each verification operation.
FatalCodes(op) ==
    IF op \in {"secp256k1_verify", "secp256k1_recover_pubkey"} THEN {2} ELSE {2, 3}

\* C8: in secp256k1_verify, secp256k1_recover_pubkey, ed25519_verify and
\* ed25519_batch_verify the guest stops, producing neither Ok nor Err, exactly
\* when the host code is one documented as "must not happen" (2; and 3 for
\* the ed25519 operations); no other host code stops the guest.
C8_OnlyFatalCodesTerminate ==
    last.op \in VerifyOps \cup {"secp256k1_recover_pubkey"} =>
        /\ HostResult[1] \in FatalCodes(last.op) =>
              (last.outcome.tag = "Panic" /\ ~alive)
        /\ HostResult[1] \notin FatalCodes(last.op) =>
              (last.outcome.tag \in {"Ok", "Err"} /\ alive)

\* C9: a host code outside the operation's table gives the operation's
\* "unknown error" variant carrying exactly that code.
KnownCodes(op) ==
    CASE op \in VerifyOps -> {0, 1, 2, 3, 4, 5, 10}
      [] op = "secp256k1_recover_pubkey" -> {0, 2, 3, 4, 6}
      [] op \in {"secp256k1_sign", "ed25519_sign"} -> {0, 1000}

C9_UnknownCodesKeepTheCode ==
    (last.op \in VerifyOps \cup DualOps /\ HostResult[1] \notin KnownCodes(last.op)) =>
        /\ last.outcome.tag = "Err"
        /\ last.outcome.variant = "UnknownErr"
        /\ last.outcome.code = HostResult[1]
        /\ alive

C9_Witness ==
    /\ last.op = "secp256k1_recover_pubkey"
    /\ HostResult[1] = 5
    /\ last.outcome.variant = "UnknownErr"
    /\ last.outcome.code = 5

\* C10: the result of secp256k1_verify is a function of the host's code
\* alone: 0 Ok(true), 1 Ok(false), 3 InvalidHashFormat, 4
\* InvalidSignatureFormat, 5 InvalidPubkeyFormat, 10 GenericErr, whatever the
\* inputs and whatever was called before.
C10_VerifyResultByCode ==
    last.op = "secp256k1_verify" =>
        /\ HostResult = <<0>> => (last.outcome.tag = "Ok" /\ last.outcome.flag)
        /\ HostResult = <<1>> => (last.outcome.tag = "Ok" /\ ~last.outcome.flag)
        /\ HostResult = <<3>> =>
              (last.outcome.tag = "Err" /\ last.outcome.variant = "InvalidHashFormat")
        /\ HostResult = <<4>> =>
              (last.outcome.tag = "Err" /\ last.outcome.variant = "InvalidSignatureFormat")
        /\ HostResult = <<5>> =>
              (last.outcome.tag = "Err" /\ last.outcome.variant = "InvalidPubkeyFormat")
        /\ HostResult = <<10>> =>
              (last.outcome.tag = "Err" /\ last.outcome.variant = "GenericErr")

C10_Witness ==
    /\ last.op = "secp256k1_verify"
    /\ HostResult = <<4>>
    /\ last.input = << <<255>>, <<0>>, <<>> >>
    /\ last.outcome.variant = "InvalidSignatureFormat"

\* C11: no wrapper passes the handle 0 (the address meaning "absent") to
\* consume_region, whatever the host returns: not get, not the iterator's
\* next, not raw_query, not the success path of the sign and recover calls.
C11_NullHandleNeverConsumed ==
    \A i \in DOMAIN last.consumed : last.consumed[i] # 0

====
